---- MODULE Spec2Model ----
(***************************************************************************)
(* Model of the "feel-good news" browser extension.                        *)
(*                                                                         *)
(*   extension/background.js  lines 1-33 : service worker (hourly alarm)   *)
(*   extension/background.js  lines 34-48: options page                    *)
(*   extension/popup.js                  : popup                           *)
(*                                                                         *)
(* popup.js holds two copies of init/loadNews/render.  Function            *)
(* declarations are hoisted per script and the later declaration of a name *)
(* wins, so the functions that run are those of lines 56-116; the listener *)
(* registered twice (lines 1 and 54) is the same function object and is    *)
(* added once.  The model is of lines 54-116.                              *)
(*                                                                         *)
(* Execution model: every callback runs to completion; a callback is       *)
(* suspended only at an await.  One action of the model is one run from an *)
(* event (or the resolution of an awaited promise) to the next await.  A   *)
(* chrome.storage operation takes effect when its promise resolves.  The   *)
(* two awaits `await fetch(..)` and `await resp.json()` are one step: the  *)
(* code between them touches nothing but the locals of the invocation.     *)
(***************************************************************************)
EXTENDS Integers, Sequences, FiniteSets, TLC

(***************************************************************************)
(* Bounds of the model.                                                    *)
(***************************************************************************)
MaxPending == 2    \* callbacks (alarm listener, init, click handlers, loadNews)
                   \* suspended at an await at the same time

(***************************************************************************)
(* JavaScript values.  Strings are sequences of one-character strings so   *)
(* that trim() and the template literal are computed, not assumed.         *)
(***************************************************************************)
JUndef == [kind |-> "undefined", str |-> <<>>, hasArticles |-> FALSE, items |-> <<>>]
JNull == [kind |-> "null", str |-> <<>>, hasArticles |-> FALSE, items |-> <<>>]
JStr(s) == [kind |-> "string", str |-> s, hasArticles |-> FALSE, items |-> <<>>]
JArr(as) == [kind |-> "array", str |-> <<>>, hasArticles |-> FALSE, items |-> as]
JObj(as) == [kind |-> "object", str |-> <<>>, hasArticles |-> TRUE, items |-> as]
JObjNoArticles == [kind |-> "object", str |-> <<>>, hasArticles |-> FALSE, items |-> <<>>]

\* a test that treats only undefined and null as "not configured"
FalsyNullish(v) == v.kind \in {"undefined", "null"}

\* ToBoolean(v) is false: the operand test of `!v`
Falsy(v) ==
  \/ v.kind \in {"undefined", "null"}
  \/ v.kind = "string" /\ v.str = <<>>

IsArray(v) == v.kind = "array"

\* String.prototype.trim
RECURSIVE TrimStart(_)
TrimStart(s) ==
  IF s # <<>> /\ Head(s) = " " THEN TrimStart(Tail(s)) ELSE s

RECURSIVE TrimEnd(_)
TrimEnd(s) ==
  IF s # <<>> /\ s[Len(s)] = " " THEN TrimEnd(SubSeq(s, 1, Len(s) - 1)) ELSE s

Trim(s) == TrimEnd(TrimStart(s))

\* `http://${ip}:8000/news`
NewsUrl(ip) == <<"http://">> \o ip \o <<":8000/news">>

\* String.prototype.repeat: RangeError on a negative count
RepeatThrows(n) == n < 0
Repeat(glyph, n) == [i \in 1..n |-> glyph]

(***************************************************************************)
(* Articles and the bodies the backend may answer with.                    *)
(***************************************************************************)
Article(u, t, s, r) == [url |-> u, title |-> t, summary |-> s, rating |-> r]

A1 == Article("a", "t", "s", 3)
A2 == Article("b", "u", "v", 0)
ANeg == Article("c", "w", "x", -1)

\* one body of each shape: the wrapper object, a bare array, an array with a
\* rating repeat() rejects, an object without `articles`, null
Payloads ==
  { JObj(<<A1>>), JArr(<<A2, A1>>), JArr(<<A1, ANeg>>), JObjNoArticles, JNull }

\* What fetch() settles with: a rejection (no response at all), or a
\* response with a status (ok or not) and a body that resp.json() parses
\* (valid) or rejects (not valid).  NoResp: fetch has not settled.
NoResp == [settled |-> "no", ok |-> FALSE, valid |-> FALSE, body |-> JUndef]
Rejected == [settled |-> "rejected", ok |-> FALSE, valid |-> FALSE, body |-> JUndef]
Resp(ok, valid, body) == [settled |-> "response", ok |-> ok, valid |-> valid, body |-> body]

Responses ==
  {Rejected}
    \cup {Resp(ok, FALSE, JUndef) : ok \in BOOLEAN}
    \cup {Resp(TRUE, TRUE, p) : p \in Payloads}
    \cup {Resp(FALSE, TRUE, JObj(<<A1>>))}

(***************************************************************************)
(* chrome.storage areas: a function from the keys present to their values. *)
(***************************************************************************)
EmptyStore == [k \in {} |-> JUndef]

\* chrome.storage.*.get(key): a key that is not stored reads as undefined
StorageGet(store, key) == IF key \in DOMAIN store THEN store[key] ELSE JUndef

\* a set that keeps the value of a key already stored
StorageSetKeep(store, items) ==
  [k \in DOMAIN store \cup DOMAIN items |->
     IF k \in DOMAIN store THEN store[k] ELSE items[k]]

\* chrome.storage.*.set(items): the given keys are overwritten, the others kept
StorageSet(store, items) ==
  [k \in DOMAIN store \cup DOMAIN items |->
     IF k \in DOMAIN items THEN items[k] ELSE store[k]]

\* chrome.storage.*.remove(key)
StorageRemove(store, key) == [k \in DOMAIN store \ {key} |-> store[k]]

OneItem(key, v) == [k \in {key} |-> v]

(***************************************************************************)
(* The popup's #newsContainer: the sequence of its child nodes.            *)
(***************************************************************************)
TextNode(s) ==
  [kind |-> "text", text |-> s, url |-> "", title |-> "", summary |-> "", rating |-> <<>>]

\* popup.js 84, 93 and 112.  The texts are written here in ASCII: the source
\* has U+2026 for the three dots, a cross-mark emoji and a space before
\* "Could", and a dog-face emoji for the glyph.
FetchingText == "Fetching..."
ErrorText == "Could not load news."
Glyph == "dog"

\* the div.article built at popup.js 107-113
ArticleNode(a) ==
  [kind |-> "row", text |-> "", url |-> a.url, title |-> a.title,
   summary |-> a.summary, rating |-> Repeat(Glyph, a.rating)]

\* popup.js 105: Array.isArray(response) ? response : response.articles || []
\* (reading a property of null or undefined is a TypeError)
NormalizeThrows(response) ==
  ~IsArray(response) /\ response.kind \in {"null", "undefined"}

\* a normalization that accepts bare arrays only
NormalizeArraysOnly(response) ==
  IF IsArray(response) THEN response.items ELSE <<>>

Normalize(response) ==
  IF IsArray(response) THEN response.items
  ELSE IF response.kind = "object" /\ response.hasArticles THEN response.items
  ELSE <<>>

\* popup.js 106-115: the forEach loop; a row is appended per article until
\* building a row throws
RECURSIVE AppendArticles(_, _)
AppendArticles(nodes, as) ==
  IF as = <<>> THEN [nodes |-> nodes, threw |-> FALSE]
  ELSE IF RepeatThrows(Head(as).rating) THEN [nodes |-> nodes, threw |-> TRUE]
  ELSE AppendArticles(Append(nodes, ArticleNode(Head(as))), Tail(as))

\* popup.js 103-116: render(response) on a container holding `nodes`.
\* norm is <<the normalized list>>, or <<>> when line 105 threw.
Render(nodes, response) ==
  IF NormalizeThrows(response)
  THEN [nodes |-> nodes, threw |-> TRUE, norm |-> <<>>]
  ELSE LET r == AppendArticles(nodes, Normalize(response))
       IN [nodes |-> r.nodes, threw |-> r.threw, norm |-> <<Normalize(response)>>]

(***************************************************************************)
(* State.                                                                  *)
(***************************************************************************)
VARIABLES
  sync,       \* chrome.storage.sync: backendIP, siteUrl
  local,      \* chrome.storage.local: latestNews
  alarms,     \* names of the alarms created
  fires,      \* suspended runs of the onAlarm listener (background.js 7-28)
  lastFire,   \* what the run of the listener that ended in the last step did
  popup,      \* "closed", "init" (init awaits line 58), "ready" (handlers registered)
  container,  \* child nodes of #newsContainer
  loads,      \* suspended click handlers and loadNews invocations (popup.js 61-100)
  lastLoad    \* what the loadNews invocation that ended in the last step did

vars == <<sync, local, alarms, fires, lastFire, popup, container, loads, lastLoad>>

RemoveAt(s, i) == SubSeq(s, 1, i - 1) \o SubSeq(s, i + 1, Len(s))

\* What the user may have typed into an address field and into the site URL
\* field when a save button is clicked.  (popup.js 59 and background.js 36-37
\* prefill the fields with the stored values; the user may edit them freely,
\* and trim() maps each stored value and the inputs below to the same values.)
IpInputs == { <<" ">>, <<" ", "a", " ">> }
UrlInputs == { <<"u", " ">> }

(***************************************************************************)
(* loads: one record per suspended popup callback, oldest first.  pc is    *)
(* the await it is suspended at:                                           *)
(*   "saving"    popup.js 63     storage.sync.set of the save click        *)
(*   "removing"  popup.js 70     storage.local.remove of the refresh click *)
(*   "get_cache" popup.js 78     storage.local.get in loadNews             *)
(*   "get_ip"    popup.js 85     storage.sync.get in loadNews              *)
(*   "fetching"  popup.js 88-89  fetch, then resp.json()                   *)
(*   "writing"   popup.js 90     storage.local.set                         *)
(* detached: the popup was closed while a storage write was pending; the   *)
(* write still reaches the storage area, the continuation never runs.      *)
(* cached: what line 78 read; fetches: the fetch calls made so far.        *)
(***************************************************************************)
FreshLoad(pc, origin, arg) ==
  [pc |-> pc, origin |-> origin, detached |-> FALSE, arg |-> arg,
   cached |-> JUndef, resp |-> NoResp, data |-> JUndef, fetches |-> 0]

\* loadNews() is called: it runs up to the await of line 78
CallLoadNews(rec) == [rec EXCEPT !.pc = "get_cache", !.arg = <<>>]

\* Summary of a loadNews invocation that ended.  outcome: "rendered" (render
\* returned), "error" (the catch of line 92 ran), "nobackend" (return of
\* line 86), "uncaught" (render of line 99 threw).  wrote: line 90 wrote the
\* cache.  renders: calls of render; response: its argument; norm: its
\* `articles` (<<list>>, or <<>> when line 105 threw or render was not called).
NoLoad ==
  [origin |-> "none", outcome |-> "none", cached |-> JUndef, resp |-> NoResp,
   fetches |-> 0, wrote |-> FALSE, renders |-> 0, response |-> JUndef, norm |-> <<>>]

LoadEnded(rec, outcome, wrote, renders, response, norm) ==
  [origin |-> rec.origin, outcome |-> outcome, cached |-> rec.cached,
   resp |-> rec.resp, fetches |-> rec.fetches, wrote |-> wrote,
   renders |-> renders, response |-> response, norm |-> norm]

(***************************************************************************)
(* fires: one record per suspended run of the alarm listener, oldest       *)
(* first.  pc: "get_ip" (background.js 9/31), "fetching" (12 and 14),      *)
(* "writing" (16).  requests: the fetch calls made so far.                 *)
(***************************************************************************)
FreshFire ==
  [pc |-> "get_ip", url |-> <<>>, resp |-> NoResp, data |-> JUndef, requests |-> 0]

\* Summary of a run of the listener that ended.  outcome: "skipped" (return
\* of line 10), "notified" (line 18 ran), "failed" (the catch of line 24
\* logged the error).  ip: what line 9 read; resp: what fetch settled with.
NoFire ==
  [outcome |-> "none", ip |-> JUndef, resp |-> NoResp, requests |-> 0,
   wrote |-> FALSE, notified |-> 0]

FireEnded(rec, outcome, ip, resp, wrote, notified) ==
  [outcome |-> outcome, ip |-> ip, resp |-> resp, requests |-> rec.requests,
   wrote |-> wrote, notified |-> notified]

\* number of callbacks suspended at an await
Pending == Len(fires) + Len(loads) + (IF popup = "init" THEN 1 ELSE 0)

Init ==
  /\ sync = EmptyStore
  /\ local = EmptyStore
  /\ alarms = {}
  /\ fires = <<>>
  /\ lastFire = NoFire
  /\ popup = "closed"
  /\ container = <<>>
  /\ loads = <<>>
  /\ lastLoad = NoLoad

(***************************************************************************)
(* Service worker: background.js 1-33                                      *)
(***************************************************************************)
\* background.js 3-5: chrome.runtime.onInstalled
Installed ==
  /\ "fetchNews" \notin alarms
  /\ alarms' = alarms \cup {"fetchNews"}
  /\ lastFire' = NoFire /\ lastLoad' = NoLoad
  /\ UNCHANGED <<sync, local, fires, popup, container, loads>>

\* background.js 7-9: the alarm fires; the listener runs up to the await of
\* getBackendIP (line 31)
AlarmFire ==
  /\ "fetchNews" \in alarms
  /\ Pending < MaxPending
  /\ fires' = Append(fires, FreshFire)
  /\ lastFire' = NoFire /\ lastLoad' = NoLoad
  /\ UNCHANGED <<sync, local, alarms, popup, container, loads>>

\* background.js 30-33 and 9-12: the address is read; without one the
\* listener returns, otherwise fetch is called
FireIpRead(f) ==
  /\ fires[f].pc = "get_ip"
  /\ LET ip == StorageGet(sync, "backendIP")
     IN IF Falsy(ip)
        THEN /\ fires' = RemoveAt(fires, f)
             /\ lastFire' = FireEnded(fires[f], "skipped", ip, NoResp, FALSE, 0)
        ELSE /\ fires' = [fires EXCEPT ![f] =
                  [@ EXCEPT !.pc = "fetching", !.url = NewsUrl(ip.str),
                            !.requests = @ + 1]]
             /\ lastFire' = NoFire
  /\ lastLoad' = NoLoad
  /\ UNCHANGED <<sync, local, alarms, popup, container, loads>>

\* the listener without the status check of line 13
FireFetchDoneNoOkCheck(f, r) ==
  /\ fires[f].pc = "fetching"
  /\ IF r.settled = "rejected" \/ ~r.valid
     THEN /\ fires' = RemoveAt(fires, f)
          /\ lastFire' = FireEnded(fires[f], "failed", JUndef, r, FALSE, 0)
     ELSE /\ fires' = [fires EXCEPT ![f] =
               [@ EXCEPT !.pc = "writing", !.resp = r, !.data = r.body]]
          /\ lastFire' = NoFire
  /\ lastLoad' = NoLoad
  /\ UNCHANGED <<sync, local, alarms, popup, container, loads>>

\* background.js 12-16 and 24-26: fetch settles with r and the body is read.
\* A rejection, a response that is not ok (line 13) and a body that does not
\* parse (line 14) go to the catch; otherwise storage.local.set is called
\* with the parsed body.
FireFetchDone(f, r) ==
  /\ fires[f].pc = "fetching"
  /\ IF r.settled = "rejected" \/ ~r.ok \/ ~r.valid
     THEN /\ fires' = RemoveAt(fires, f)
          /\ lastFire' = FireEnded(fires[f], "failed", JUndef, r, FALSE, 0)
     ELSE /\ fires' = [fires EXCEPT ![f] =
               [@ EXCEPT !.pc = "writing", !.resp = r, !.data = r.body]]
          /\ lastFire' = NoFire
  /\ lastLoad' = NoLoad
  /\ UNCHANGED <<sync, local, alarms, popup, container, loads>>

\* the listener creating the notification without having stored the payload
FireWriteDoneNoWrite(f) ==
  /\ fires[f].pc = "writing"
  /\ fires' = RemoveAt(fires, f)
  /\ lastFire' = FireEnded(fires[f], "notified", JUndef, fires[f].resp, FALSE, 1)
  /\ lastLoad' = NoLoad
  /\ UNCHANGED <<sync, local, alarms, popup, container, loads>>

\* background.js 16-23: the write completes and the notification is created
FireWriteDone(f) ==
  /\ fires[f].pc = "writing"
  /\ local' = StorageSet(local, OneItem("latestNews", fires[f].data))
  /\ fires' = RemoveAt(fires, f)
  /\ lastFire' = FireEnded(fires[f], "notified", JUndef, fires[f].resp, TRUE, 1)
  /\ lastLoad' = NoLoad
  /\ UNCHANGED <<sync, alarms, popup, container, loads>>

(***************************************************************************)
(* Options page: background.js 34-48                                       *)
(***************************************************************************)
\* background.js 39-42: the save click; both fields are trimmed and stored.
\* (Lines 43-46 show and later clear a status text; nothing reads it.)
OptionsSave(ip, url) ==
  /\ sync' = StorageSet(sync,
       [k \in {"backendIP", "siteUrl"} |->
          IF k = "backendIP" THEN JStr(Trim(ip)) ELSE JStr(Trim(url))])
  /\ lastFire' = NoFire /\ lastLoad' = NoLoad
  /\ UNCHANGED <<local, alarms, fires, popup, container, loads>>

(***************************************************************************)
(* Popup: popup.js 54-116                                                  *)
(***************************************************************************)
\* popup.js 54-58: the popup opens, init runs up to its first await
OpenPopup ==
  /\ popup = "closed"
  /\ Pending < MaxPending
  /\ popup' = "init"
  /\ lastFire' = NoFire /\ lastLoad' = NoLoad
  /\ UNCHANGED <<sync, local, alarms, fires, container, loads>>

\* popup.js 58-75: the click handlers are registered and loadNews is called
InitResume ==
  /\ popup = "init"
  /\ popup' = "ready"
  /\ loads' = Append(loads, CallLoadNews(FreshLoad("init", "init", <<>>)))
  /\ lastFire' = NoFire /\ lastLoad' = NoLoad
  /\ UNCHANGED <<sync, local, alarms, fires, container>>

\* popup.js 61-63: save click, up to the await of storage.sync.set
SaveClick(typed) ==
  /\ popup = "ready"
  /\ Pending < MaxPending
  /\ loads' = Append(loads, FreshLoad("saving", "save", Trim(typed)))
  /\ lastFire' = NoFire /\ lastLoad' = NoLoad
  /\ UNCHANGED <<sync, local, alarms, fires, popup, container>>

\* the save click storing the address as the whole settings area
SaveDoneReplace(t) ==
  /\ loads[t].pc = "saving"
  /\ sync' = OneItem("backendIP", JStr(loads[t].arg))
  /\ loads' = IF loads[t].detached
              THEN RemoveAt(loads, t)
              ELSE [loads EXCEPT ![t] = CallLoadNews(@)]
  /\ lastFire' = NoFire /\ lastLoad' = NoLoad
  /\ UNCHANGED <<local, alarms, fires, popup, container>>

\* the save click storing the address and clearing the cached news
SaveDoneClearsCache(t) ==
  /\ loads[t].pc = "saving"
  /\ sync' = StorageSet(sync, OneItem("backendIP", JStr(loads[t].arg)))
  /\ local' = StorageRemove(local, "latestNews")
  /\ loads' = IF loads[t].detached
              THEN RemoveAt(loads, t)
              ELSE [loads EXCEPT ![t] = CallLoadNews(@)]
  /\ lastFire' = NoFire /\ lastLoad' = NoLoad
  /\ UNCHANGED <<alarms, fires, popup, container>>

\* popup.js 63-64: the address is stored, then loadNews is called
SaveDone(t) ==
  /\ loads[t].pc = "saving"
  /\ sync' = StorageSet(sync, OneItem("backendIP", JStr(loads[t].arg)))
  /\ loads' = IF loads[t].detached
              THEN RemoveAt(loads, t)
              ELSE [loads EXCEPT ![t] = CallLoadNews(@)]
  /\ lastFire' = NoFire /\ lastLoad' = NoLoad
  /\ UNCHANGED <<local, alarms, fires, popup, container>>

\* popup.js 68-70: refresh click, up to the await of storage.local.remove
RefreshClick ==
  /\ popup = "ready"
  /\ Pending < MaxPending
  /\ loads' = Append(loads, FreshLoad("removing", "refresh", <<>>))
  /\ lastFire' = NoFire /\ lastLoad' = NoLoad
  /\ UNCHANGED <<sync, local, alarms, fires, popup, container>>

\* popup.js 70-71: the cache is cleared, then loadNews is called
RefreshDone(t) ==
  /\ loads[t].pc = "removing"
  /\ local' = StorageRemove(local, "latestNews")
  /\ loads' = IF loads[t].detached
              THEN RemoveAt(loads, t)
              ELSE [loads EXCEPT ![t] = CallLoadNews(@)]
  /\ lastFire' = NoFire /\ lastLoad' = NoLoad
  /\ UNCHANGED <<sync, alarms, fires, popup, container>>

\* popup.js 78-85 and 99: the cache is read and the container emptied; a
\* falsy value shows the placeholder and reads the address, any other value
\* is rendered (outside any try)
LoadCacheRead(t) ==
  /\ loads[t].pc = "get_cache"
  /\ LET latestNews == StorageGet(local, "latestNews")
         rec == [loads[t] EXCEPT !.cached = latestNews]
         r == Render(<<>>, latestNews)
     IN IF Falsy(latestNews)
        THEN /\ container' = <<TextNode(FetchingText)>>
             /\ loads' = [loads EXCEPT ![t] = [rec EXCEPT !.pc = "get_ip"]]
             /\ lastLoad' = NoLoad
        ELSE /\ container' = r.nodes
             /\ loads' = RemoveAt(loads, t)
             /\ lastLoad' = LoadEnded(rec, IF r.threw THEN "uncaught" ELSE "rendered",
                                      FALSE, 1, latestNews, r.norm)
  /\ lastFire' = NoFire
  /\ UNCHANGED <<sync, local, alarms, fires, popup>>

\* popup.js 85-88: the address is read; without one loadNews returns,
\* otherwise fetch is called
LoadIpRead(t) ==
  /\ loads[t].pc = "get_ip"
  /\ LET backendIP == StorageGet(sync, "backendIP")
     IN IF Falsy(backendIP)
        THEN /\ loads' = RemoveAt(loads, t)
             /\ lastLoad' = LoadEnded(loads[t], "nobackend", FALSE, 0, JUndef, <<>>)
        ELSE /\ loads' = [loads EXCEPT ![t] =
                  [@ EXCEPT !.pc = "fetching", !.arg = NewsUrl(backendIP.str),
                            !.fetches = @ + 1]]
             /\ lastLoad' = NoLoad
  /\ lastFire' = NoFire
  /\ UNCHANGED <<sync, local, alarms, fires, popup, container>>

\* popup.js 88-90 and 92-95: fetch settles with r and the body is read.  A
\* rejection and a body that does not parse (line 89) go to the catch; any
\* other response, whatever its status, has its parsed body passed to
\* storage.local.set.
LoadFetchDone(t, r) ==
  /\ loads[t].pc = "fetching"
  /\ IF r.settled = "rejected" \/ ~r.valid
     THEN /\ container' = <<TextNode(ErrorText)>>
          /\ loads' = RemoveAt(loads, t)
          /\ lastLoad' = LoadEnded([loads[t] EXCEPT !.resp = r], "error",
                                   FALSE, 0, JUndef, <<>>)
     ELSE /\ container' = container
          /\ loads' = [loads EXCEPT ![t] =
               [@ EXCEPT !.pc = "writing", !.resp = r, !.data = r.body]]
          /\ lastLoad' = NoLoad
  /\ lastFire' = NoFire
  /\ UNCHANGED <<sync, local, alarms, fires, popup>>

\* popup.js 90-95: the write completes and the value is rendered inside the
\* try: if render throws, the catch replaces the container's content
LoadWriteDone(t) ==
  /\ loads[t].pc = "writing"
  /\ local' = StorageSet(local, OneItem("latestNews", loads[t].data))
  /\ loads' = RemoveAt(loads, t)
  /\ IF loads[t].detached
     THEN /\ container' = container
          /\ lastLoad' = NoLoad
     ELSE LET r == Render(container, loads[t].data)
          IN /\ container' = IF r.threw THEN <<TextNode(ErrorText)>> ELSE r.nodes
             /\ lastLoad' = LoadEnded(loads[t], IF r.threw THEN "error" ELSE "rendered",
                                      TRUE, 1, loads[t].data, r.norm)
  /\ lastFire' = NoFire
  /\ UNCHANGED <<sync, alarms, fires, popup>>

\* a suspended callback whose storage write was already requested
WritePending(rec) == rec.pc \in {"saving", "removing", "writing"}

Detach(rec) ==
  [FreshLoad(rec.pc, "none", rec.arg) EXCEPT !.detached = TRUE, !.data = rec.data]

\* the popup is closed: its document and every suspended callback are
\* discarded; a storage write already requested still takes effect
ClosePopup ==
  /\ popup # "closed"
  /\ popup' = "closed"
  /\ container' = <<>>
  /\ LET kept == SelectSeq(loads, WritePending)
     IN loads' = [i \in 1..Len(kept) |-> Detach(kept[i])]
  /\ lastFire' = NoFire /\ lastLoad' = NoLoad
  /\ UNCHANGED <<sync, local, alarms, fires>>

Next ==
  \/ Installed
  \/ AlarmFire
  \/ \E f \in 1..Len(fires) : FireIpRead(f)
  \/ \E f \in 1..Len(fires), r \in Responses : FireFetchDone(f, r)
  \/ \E f \in 1..Len(fires) : FireWriteDone(f)
  \/ \E ip \in IpInputs, url \in UrlInputs : OptionsSave(ip, url)
  \/ OpenPopup
  \/ InitResume
  \/ \E s \in IpInputs : SaveClick(s)
  \/ \E t \in 1..Len(loads) : SaveDone(t)
  \/ RefreshClick
  \/ \E t \in 1..Len(loads) : RefreshDone(t)
  \/ \E t \in 1..Len(loads) : LoadCacheRead(t)
  \/ \E t \in 1..Len(loads) : LoadIpRead(t)
  \/ \E t \in 1..Len(loads), r \in Responses : LoadFetchDone(t, r)
  \/ \E t \in 1..Len(loads) : LoadWriteDone(t)
  \/ ClosePopup

Spec == Init /\ [][Next]_vars

\* A storage write that was requested completes: chrome.storage settles the
\* promise of line 16 of background.js, and the listener resumes.  (The
\* write is taken to succeed and the service worker to stay alive until
\* then; the code handles neither a storage error nor a shutdown.)
FairSpec == Spec /\ WF_vars(\E f \in 1..Len(fires) : FireWriteDone(f))

(***************************************************************************)
(* Properties.                                                             *)
(***************************************************************************)
\* Settings hold no backend address: the key is absent or the empty string
NoBackendIP ==
  \/ "backendIP" \notin DOMAIN sync
  \/ sync["backendIP"].kind = "string" /\ sync["backendIP"].str = <<>>

\* in this step the run f of the alarm listener resumes from line 9
FireResumesFromIpRead(f) ==
  /\ fires[f].pc = "get_ip"
  /\ \/ Len(fires') = Len(fires) /\ fires'[f].pc # "get_ip"
     \/ fires' = RemoveAt(fires, f) /\ lastFire'.outcome # "none"

\* C1: when the settings hold no backendIP (absent or empty string), a
\* firing of the 'fetchNews' alarm that reads them ends there: it has made
\* no HTTP request, the cache is not written and no notification is created.
C1_NoBackendFiringIsNoOp ==
  [][\A f \in 1..Len(fires) :
       (NoBackendIP /\ FireResumesFromIpRead(f)) =>
         /\ fires' = RemoveAt(fires, f)
         /\ lastFire'.outcome = "skipped"
         /\ lastFire'.requests = 0
         /\ ~lastFire'.wrote
         /\ lastFire'.notified = 0
         /\ local' = local]_vars

\* a firing read the empty string as its address and was skipped
C1_Witness ==
  /\ lastFire.outcome = "skipped"
  /\ lastFire.ip = JStr(<<>>)
  /\ NoBackendIP

\* the response is a success: a status that is ok and a body that parses
Successful(r) == r.settled = "response" /\ r.ok /\ r.valid

\* the payload carries an article list: a bare array, or an object with `articles`
HasArticleList(p) == p.kind = "array" \/ (p.kind = "object" /\ p.hasArticles)

NonNegativeRatings(p) == \A i \in 1..Len(p.items) : p.items[i].rating >= 0

\* the last Len(as) nodes of the container are the rows of the articles as,
\* in order, each with its glyph repeated `rating` times
ShowsRowsOf(as) ==
  /\ Len(container) >= Len(as)
  /\ \A i \in 1..Len(as) :
       LET node == container[Len(container) - Len(as) + i]
       IN /\ node.kind = "row"
          /\ node.url = as[i].url
          /\ node.title = as[i].title
          /\ node.summary = as[i].summary
          /\ Len(node.rating) = as[i].rating
          /\ \A j \in 1..Len(node.rating) : node.rating[j] = Glyph

\* the cache holds exactly p
CacheIs(p) == DOMAIN local = {"latestNews"} /\ local["latestNews"] = p

\* the run of the listener / the loadNews invocation that just ended had a
\* successful fetch: the cache is then exactly the fetched payload
CacheIsFetchedPayload ==
  /\ Successful(lastFire.resp) => lastFire.wrote /\ CacheIs(lastFire.resp.body)
  /\ Successful(lastLoad.resp) =>
       lastLoad.wrote /\ lastLoad.renders = 1 /\ CacheIs(lastLoad.resp.body)
                      /\ lastLoad.response = lastLoad.resp.body

\* C2 as stated: after a successful fetch of P the cache is exactly P, and a
\* render of P (just fetched, or read back from the cache) shows one row per
\* article with the glyph repeated `rating` times.
C2_AsStated ==
  /\ CacheIsFetchedPayload
  /\ (lastLoad.renders > 0 /\ HasArticleList(lastLoad.response)) =>
       ShowsRowsOf(lastLoad.response.items)

\* C2, amended: after a successful fetch of P the cache is exactly P, and a
\* render of P shows one row per article with the glyph repeated `rating`
\* times whenever no rating of P is negative.
C2_CacheAndRows ==
  /\ CacheIsFetchedPayload
  /\ (lastLoad.renders > 0 /\ HasArticleList(lastLoad.response)
        /\ NonNegativeRatings(lastLoad.response)) =>
       /\ ShowsRowsOf(lastLoad.response.items)
       /\ lastLoad.outcome = "rendered"

\* the popup fetched the wrapper object of one article rated 3, cached it
\* and shows its row with three glyphs
C2_Witness ==
  /\ Successful(lastLoad.resp)
  /\ lastLoad.response = JObj(<<A1>>)
  /\ CacheIs(JObj(<<A1>>))
  /\ container[Len(container)].rating = <<Glyph, Glyph, Glyph>>

\* the fetch of a popup invocation failed: it was rejected, or the body
\* did not parse
PopupFetchFailed(r) ==
  r.settled = "rejected" \/ (r.settled = "response" /\ ~r.valid)

\* C3 as stated: a loadNews invocation whose fetch failed has not written the
\* cache and leaves the error string displayed; and a loadNews invocation
\* that displays the error string has not written the cache.
C3_AsStated ==
  /\ PopupFetchFailed(lastLoad.resp) =>
       ~lastLoad.wrote /\ container = <<TextNode(ErrorText)>>
  /\ lastLoad.outcome = "error" => ~lastLoad.wrote

\* the response has a status that is not a success
NotOk(r) == r.settled = "response" /\ ~r.ok

\* C4 as stated: a response whose status is not a success makes the fetch
\* fail, for the alarm listener and for loadNews alike: its body is neither
\* written to the cache nor rendered.
C4_AsStated ==
  /\ NotOk(lastFire.resp) => lastFire.outcome = "failed" /\ ~lastFire.wrote
  /\ NotOk(lastLoad.resp) =>
       lastLoad.outcome = "error" /\ ~lastLoad.wrote /\ lastLoad.renders = 0

\* C5 as stated: the loadNews invocation of a refresh click has made exactly
\* one fetch call before it calls render.
C5_AsStated ==
  (lastLoad.origin = "refresh" /\ lastLoad.renders > 0) => lastLoad.fetches = 1

\* C6: render of a bare sequence of articles iterates that same sequence, and
\* render of an object with an `articles` field iterates exactly that field.
C6_Normalization ==
  (lastLoad.renders > 0 /\ HasArticleList(lastLoad.response)) =>
    /\ Len(lastLoad.norm) = 1
    /\ Len(lastLoad.norm[1]) = Len(lastLoad.response.items)
    /\ \A i \in 1..Len(lastLoad.norm[1]) :
         lastLoad.norm[1][i] = lastLoad.response.items[i]

\* a bare sequence of two articles and a wrapper object were each rendered
C6_Witness ==
  /\ lastLoad.renders > 0
  /\ lastLoad.response = JArr(<<A2, A1>>)
  /\ lastLoad.norm = << <<A2, A1>> >>
  /\ container = <<ArticleNode(A2), ArticleNode(A1)>>

NoArticlesText == "No articles available."

\* C7 as stated: render of a payload of any other shape iterates the empty
\* sequence, displays no row, shows "No articles available." and raises no
\* error.
C7_AsStated ==
  (lastLoad.renders > 0 /\ ~HasArticleList(lastLoad.response)) =>
    /\ lastLoad.norm = << <<>> >>
    /\ lastLoad.outcome = "rendered"
    /\ container = <<TextNode(NoArticlesText)>>

\* the fetch of the alarm listener failed: rejected, a status that is not a
\* success, or a body that does not parse
ListenerFetchFailed(r) ==
  \/ r.settled = "rejected"
  \/ r.settled = "response" /\ (~r.ok \/ ~r.valid)

\* C8: a run of the alarm listener makes at most one HTTP request; when its
\* fetch fails it ends at once: the cache is left as it was, no notification
\* is created and no request is issued again.
C8_FailedFiringSkips ==
  [][/\ \A f \in 1..Len(fires') : fires'[f].requests <= 1
     /\ lastFire'.requests <= 1
     /\ ListenerFetchFailed(lastFire'.resp) =>
          /\ lastFire'.outcome = "failed"
          /\ ~lastFire'.wrote
          /\ lastFire'.notified = 0
          /\ local' = local
          /\ \E f \in 1..Len(fires) :
               fires[f].pc = "fetching" /\ fires' = RemoveAt(fires, f)]_vars

\* a run of the listener failed on a status that is not a success although
\* the body was valid JSON
C8_Witness ==
  /\ lastFire.outcome = "failed"
  /\ lastFire.resp = Resp(FALSE, TRUE, JObj(<<A1>>))
  /\ lastFire.requests = 1

\* C9: the alarm listener creates a notification only when its fetch
\* succeeded and only once its payload is in the cache; a run whose fetch
\* succeeded eventually creates exactly one notification.
C9_NotifyAfterWrite ==
  /\ [](lastFire.notified > 0 =>
          /\ Successful(lastFire.resp)
          /\ lastFire.wrote
          /\ CacheIs(lastFire.resp.body)
          /\ lastFire.notified = 1)
  /\ [](lastFire.outcome \in {"skipped", "failed"} => lastFire.notified = 0)
  /\ ((\E f \in 1..Len(fires) : fires[f].pc = "writing")
        ~> (lastFire.outcome = "notified" /\ lastFire.notified = 1))

\* a run of the listener has stored its payload and created its notification
C9_Witness ==
  /\ lastFire.outcome = "notified"
  /\ lastFire.notified = 1
  /\ CacheIs(lastFire.resp.body)

\* the cache held a payload when line 78 read it
CacheHeld(v) == v.kind # "undefined"

\* C10 as stated: a loadNews invocation that read a payload from the cache
\* renders that payload at once, without an HTTP request or a cache write.
C10_AsStated ==
  /\ \A t \in 1..Len(loads) :
       (~loads[t].detached /\ CacheHeld(loads[t].cached)) =>
         loads[t].pc \notin {"get_ip", "fetching", "writing"}
  /\ (lastLoad.outcome # "none" /\ CacheHeld(lastLoad.cached)) =>
       /\ lastLoad.fetches = 0
       /\ ~lastLoad.wrote
       /\ lastLoad.renders = 1
       /\ lastLoad.response = lastLoad.cached

\* the popup callbacks whose HTTP request was issued and has not settled
PopupRequestsInFlight == { t \in 1..Len(loads) : loads[t].pc = "fetching" }

\* C11 as stated, for the popup: whatever the sequence of popup events
\* (initial load, save clicks, refresh clicks), the loadNews invocations
\* never have two HTTP requests in flight at the same time.
C11_AsStated == Cardinality(PopupRequestsInFlight) <= 1

\* the listener has called storage.local.set for latestNews (background.js 16)
SchedulerCacheWritePending == \E f \in 1..Len(fires) : fires[f].pc = "writing"

\* the popup has called storage.local.set (popup.js 90) or
\* storage.local.remove (popup.js 70) for latestNews
PopupCacheWritePending ==
  \E t \in 1..Len(loads) : loads[t].pc \in {"writing", "removing"}

\* C12 as stated, for latestNews: the key has one writer, so the alarm
\* listener and the popup never both have a write to it pending.
C12_AsStated == ~(SchedulerCacheWritePending /\ PopupCacheWritePending)

\* C13 as stated: no run of the alarm listener and no loadNews invocation
\* ends with an uncaught error, whatever the backend returned and whatever
\* the cache holds: the listener ends by logging, loadNews by displaying the
\* error string.
C13_AsStated ==
  /\ lastFire.outcome \in {"none", "skipped", "failed", "notified"}
  /\ lastLoad.outcome \in {"none", "rendered", "error", "nobackend"}

\* C14 as stated: the loadNews invocation that the popup's save click starts
\* shows news only after having fetched it: what it renders is the body of
\* the response to the one request it made to the address just saved.
C14_AsStated ==
  (lastLoad.origin = "save" /\ lastLoad.renders > 0) =>
    /\ lastLoad.fetches = 1
    /\ lastLoad.resp.settled = "response"
    /\ lastLoad.response = lastLoad.resp.body

\* in this step the save click t of the popup resumes from line 63
PopupSaveResumes(t) ==
  /\ loads[t].pc = "saving"
  /\ \/ loads' = RemoveAt(loads, t)
     \/ Len(loads') = Len(loads) /\ loads'[t].pc = "get_cache"

\* C15: storing settings merges: the popup's save sets backendIP to the
\* trimmed address and leaves siteUrl and latestNews as they were; the
\* options page's save changes only backendIP and siteUrl and leaves
\* latestNews as it was; no step that changes the settings removes a key.
C15_SaveMerges ==
  [][/\ \A t \in 1..Len(loads) :
          PopupSaveResumes(t) =>
            /\ StorageGet(sync', "backendIP") = JStr(loads[t].arg)
            /\ StorageGet(sync', "siteUrl") = StorageGet(sync, "siteUrl")
            /\ local' = local
     /\ sync' # sync =>
          /\ local' = local
          /\ DOMAIN sync \subseteq DOMAIN sync'
          /\ DOMAIN sync' \subseteq {"backendIP", "siteUrl"}]_vars

\* the popup's save has stored its address while a site URL and cached news
\* were present, and both are still there
C15_Witness ==
  /\ \E t \in 1..Len(loads) : loads[t].pc = "get_cache" /\ loads[t].origin = "save"
  /\ StorageGet(sync, "backendIP") = JStr(<<"a">>)
  /\ StorageGet(sync, "siteUrl") = JStr(<<"u">>)
  /\ "latestNews" \in DOMAIN local

\* a loadNews invocation of the open popup is between its call and its end
LoadNewsInProgress ==
  \E t \in 1..Len(loads) :
    ~loads[t].detached /\ loads[t].pc \in {"get_cache", "get_ip", "fetching", "writing"}

HasRows == \E i \in 1..Len(container) : container[i].kind = "row"

\* the rows of the articles as, one each, in order
RowsOf(as) == [i \in 1..Len(as) |-> ArticleNode(as[i])]

\* C16 as stated: whenever no loadNews invocation is in progress, the rows
\* the popup displays are the whole content of the container and are the
\* rows of the normalized article list of one payload, each article once and
\* in order; no text node stands beside them.
C16_AsStated ==
  (~LoadNewsInProgress /\ HasRows) =>
    \E p \in Payloads :
      ~NormalizeThrows(p) /\ container = RowsOf(Normalize(p))

\* C17 as stated: a loadNews invocation that found the cache empty and no
\* backend address has made no HTTP request and no cache write, and leaves
\* the "Fetching..." placeholder as the content of the container.
C17_AsStated ==
  lastLoad.outcome = "nobackend" =>
    /\ lastLoad.fetches = 0
    /\ ~lastLoad.wrote
    /\ lastLoad.renders = 0
    /\ container = <<TextNode(FetchingText)>>

\* the bodies of the responses whose JSON parsed
ReceivedBodies == { r.body : r \in { x \in Responses : x.settled = "response" /\ x.valid } }

\* every storage.local.set that is pending carries the parsed body of the
\* response its callback received
PendingWritesCarryReceivedBody ==
  /\ \A f \in 1..Len(fires) :
       fires[f].pc = "writing" =>
         Successful(fires[f].resp) /\ fires[f].data = fires[f].resp.body
  /\ \A t \in 1..Len(loads) :
       loads[t].pc = "writing" =>
         /\ loads[t].data \in ReceivedBodies
         /\ ~loads[t].detached =>
              /\ loads[t].resp.settled = "response" /\ loads[t].resp.valid
              /\ loads[t].data = loads[t].resp.body

\* in this step the listener's write f, the popup's write t, or the refresh
\* click's remove t completes
FireWriteLands(f) ==
  /\ fires[f].pc = "writing"
  /\ fires' = RemoveAt(fires, f)
  /\ local' = OneItem("latestNews", fires[f].data)

LoadWriteLands(t) ==
  /\ loads[t].pc = "writing"
  /\ loads' = RemoveAt(loads, t)
  /\ local' = OneItem("latestNews", loads[t].data)

RefreshRemoveLands(t) ==
  /\ loads[t].pc = "removing"
  /\ \/ loads' = RemoveAt(loads, t)
     \/ Len(loads') = Len(loads) /\ loads'[t].pc = "get_cache"
  /\ local' = EmptyStore

\* C18: latestNews is always absent or the parsed JSON body of a response
\* that a fetch of the alarm listener or of loadNews received.  The cache
\* changes only when a storage.local.set of such a body completes or when
\* the refresh click's remove completes; it loses the key only by that
\* remove; a save, a failed fetch and a render leave it as it was.
C18_CacheProvenance ==
  /\ [](local = EmptyStore \/ \E b \in ReceivedBodies : CacheIs(b))
  /\ []PendingWritesCarryReceivedBody
  /\ [][/\ local' # local =>
            \/ \E f \in 1..Len(fires) : FireWriteLands(f)
            \/ \E t \in 1..Len(loads) : LoadWriteLands(t) \/ RefreshRemoveLands(t)
        /\ ("latestNews" \in DOMAIN local /\ "latestNews" \notin DOMAIN local') =>
            \E t \in 1..Len(loads) : RefreshRemoveLands(t)
        /\ (lastFire'.outcome = "failed" \/ (lastLoad'.outcome # "none" /\ ~lastLoad'.wrote)) =>
            local' = local
        /\ sync' # sync => local' = local]_vars

\* the cache holds the body of a response with a status that is not a
\* success, which loadNews received and stored
C18_Witness ==
  /\ lastLoad.wrote
  /\ lastLoad.resp = Resp(FALSE, TRUE, JObj(<<A1>>))
  /\ CacheIs(JObj(<<A1>>))

====
